---- MODULE Spec2Model ----
(***************************************************************************)
(* MINCARE wellness tracker: the derivation rules of the views             *)
(* (StressSnap, MoodJournal, Dashboard, SleepPal, MindGym) as state        *)
(* machines over the view state and the rows held by the storage backend.  *)
(*                                                                         *)
(* Numbers.  Heart rates, tiers, counts and scores are integers.  The      *)
(* sentiment score is an IEEE-754 double: it is kept as a sign and an      *)
(* integer magnitude in units of 2^-56 (every value the scorer can produce *)
(* is a multiple of that unit), the magnitude split in two limbs of 28     *)
(* bits, and additions round to 53 significant bits, ties to even.         *)
(* Average sleep hours have one decimal and are kept in tenths of an hour. *)
(***************************************************************************)
EXTENDS Integers, Sequences, FiniteSets, TLC

VARIABLES
    \* ---- StressSnap view and the stress_readings table
    heartRate,          \* useState(72): the heart-rate field
    stress_readings,    \* rows of the table, oldest first
    readings,           \* the view's list (most recent first, at most 10)
    alerted,            \* whether the last recordReading raised the alert
    \* ---- MoodJournal scorer and insight generator
    entryText,          \* the text, a sequence of one-character strings
    selectedMood,       \* the mood value
    sentiment,          \* result of analyzeSentiment, or NotScored
    insights,           \* result of generateInsights, or NoInsights
    \* ---- Dashboard and the rows it reads
    profile,            \* the user's profiles rows: <<>> or <<[wellness_score]>>
    mood_entries,       \* rows of the user, oldest first
    mindgym_progress,   \* rows, oldest first: [streak_count, fitness_level]
    sleep_sessions,     \* rows, oldest first: [duration_minutes]
    data,               \* useState<DashboardData>
    reads,              \* what the five reads of the last load returned
    loadPc,             \* "idle", or "awaiting" while a load waits for its reads
    calculated,         \* calculatedScore of the last load, or NotCalculated
    update,             \* the profile update of the last load: [issued, ok, value]
    scoreLabel,         \* the label rendered for data.wellnessScore, or NoValue
    inflight,           \* the reads of a running load that have not returned yet
    \* ---- SleepPal view (its table is sleep_sessions)
    sleepStart,         \* the Bedtime field: <<>> when empty, else <<minute>>
    sleepEnd,           \* the Wake Time field, likewise
    quality,            \* the quality slider
    sessions,           \* the view's list of sessions
    \* ---- MindGym view (its table is mindgym_progress)
    progress,           \* useState<UserProgress>
    progressCall,       \* the loadProgress call on its way: [st, ok, rows]
    completions,        \* the completeExercise calls on their way, oldest first
    \* ---- MindGym with the breathing timer (the variant that shows a timer)
    activeExercise,     \* useState<Exercise | null>: <<>> or <<[duration_seconds]>>
    selectedType,       \* the type filter
    seconds,            \* the timer's remaining seconds
    isActive,           \* whether the timer runs
    interval,           \* whether the effect's interval is armed
    effectDue,          \* the timer has rendered with new dependencies: its effect is to run
    \* ---- MoodJournal form
    shareToCommunity,   \* the share checkbox
    saving,             \* useState(false): a save is on its way
    entries,            \* the view's list of entries
    entriesCall,        \* a loadEntries call is on its way
    insertCall,         \* the row of the insert handleSave waits for, if any
    \* ---- CalmCircle view and its tables
    calm_circle_memberships,  \* rows [user_id, group_id], a set (the pair is unique)
    member_count,       \* calm_circle_groups.member_count, by group
    calm_circle_posts,  \* rows [id, group_id], oldest first
    groups,             \* the view's copy of member_count (loadGroups)
    memberships,        \* the view's list: the groups the user has joined
    selectedGroup,      \* useState<string | null>
    posts,              \* the posts held for display
    postCalls,          \* the loadPosts calls on their way, oldest first
    loading             \* useState(false): a join is on its way

stressVars == <<heartRate, stress_readings, readings, alerted>>
moodVars == <<entryText, selectedMood, sentiment, insights, shareToCommunity, saving, entries, entriesCall, insertCall>>
dashVars == <<profile, mood_entries, mindgym_progress, sleep_sessions, data, reads, calculated,
              update, scoreLabel, inflight, loadPc>>
sleepVars == <<sleepStart, sleepEnd, quality, sessions>>
gymVars == <<progress, progressCall, completions>>
timerVars == <<activeExercise, selectedType, seconds, isActive, interval, effectDue>>
circleVars == <<calm_circle_memberships, member_count, calm_circle_posts, groups, memberships,
                selectedGroup, posts, postCalls, loading>>
vars == <<stressVars, moodVars, dashVars, sleepVars, gymVars, timerVars, circleVars>>

NoValue == "NoValue"
\* the value of insights before the generator has run
NoInsights == [base |-> NoValue, suffix |-> NoValue]

(***************************************************************************)
(* Helpers on sequences                                                    *)
(***************************************************************************)
RECURSIVE SumSeq(_)
SumSeq(s) == IF s = <<>> THEN 0 ELSE Head(s) + SumSeq(Tail(s))

Reverse(s) == [i \in 1..Len(s) |-> s[Len(s) + 1 - i]]

\* .order(col, {ascending: false}).limit(n) on rows kept oldest first
MostRecent(rows, n) == SubSeq(Reverse(rows), 1, IF Len(rows) < n THEN Len(rows) ELSE n)

\* Math.round of the quotient a / b of two integers, b > 0: the nearest
\* integer, a tie going up (towards +infinity)
RoundDiv(a, b) == (2 * a + b) \div (2 * b)

Min(a, b) == IF a < b THEN a ELSE b

(***************************************************************************)
(* StressSnap                                                              *)
(***************************************************************************)
HrInputMin == 40
HrInputMax == 200
HrMargin == 45
HeartRates == (HrInputMin - HrMargin)..(HrInputMax + HrMargin)
\* one heart rate on each side of every breakpoint, and the ends of the field's range
HrSamples == {39, 40, 59, 60, 69, 70, 79, 80, 89, 90, 99, 100, 200, 201}
MaxReadings == 2
ReadingsLimit == 10

calculateStressLevel_drifting(hr) ==
    (IF hr < 60 THEN 2
     ELSE IF hr < 70 THEN 3
     ELSE IF hr < 80 THEN 5
     ELSE IF hr < 90 THEN 7
     ELSE IF hr < 100 THEN 8
     ELSE 9) + Len(stress_readings)

calculateStressLevel_lowTierAt60(hr) ==
    IF hr <= 60 THEN 2
    ELSE IF hr < 70 THEN 3
    ELSE IF hr < 80 THEN 5
    ELSE IF hr < 90 THEN 7
    ELSE IF hr < 100 THEN 8
    ELSE 9

calculateStressLevel(hr) ==
    IF hr < 60 THEN 2
    ELSE IF hr < 70 THEN 3
    ELSE IF hr < 80 THEN 5
    ELSE IF hr < 90 THEN 7
    ELSE IF hr < 100 THEN 8
    ELSE 9

shouldTrigger_above7(stressLevel) == stressLevel > 7

shouldTrigger(stressLevel) == stressLevel >= 7

\* the row recordReading hands to insert (user_id and data_source, which no
\* derivation reads, are left out)
NewReading(hr) ==
    [heart_rate |-> hr,
     stress_level |-> calculateStressLevel(hr),
     intervention_triggered |-> shouldTrigger(calculateStressLevel(hr))]

setHeartRate(hr) ==
    /\ heartRate' = hr
    /\ hr # heartRate
    /\ UNCHANGED <<stress_readings, readings, alerted>>
    /\ UNCHANGED <<moodVars, dashVars, sleepVars, gymVars, timerVars, circleVars>>

\* recordReading: the insert (its error is not looked at), then loadReadings
\* (which keeps the old list when the select fails), then the alert.
recordReading(insertOk, selectOk) ==
    /\ Len(stress_readings) < MaxReadings
    /\ stress_readings' =
          IF insertOk THEN Append(stress_readings, NewReading(heartRate))
          ELSE stress_readings
    /\ readings' = IF selectOk THEN MostRecent(stress_readings', ReadingsLimit) ELSE readings
    /\ alerted' = shouldTrigger(calculateStressLevel(heartRate))
    /\ UNCHANGED heartRate
    /\ UNCHANGED <<moodVars, dashVars, sleepVars, gymVars, timerVars, circleVars>>

(***************************************************************************)
(* IEEE-754 doubles of magnitude below 2: [neg, hi, lo] stands for         *)
(* (-1)^neg * (hi * 2^28 + lo) * 2^-56.  Zero is [FALSE, 0, 0].            *)
(***************************************************************************)
Limb == 2^28

Dbl(neg, hi, lo) == [neg |-> neg, hi |-> hi, lo |-> lo]

Zero == Dbl(FALSE, 0, 0)
\* no double: the value of sentiment before the scorer has run
NotScored == Dbl(FALSE, -1, -1)
\* the literal 0.1 = 7205759403792794 * 2^-56
Tenth == Dbl(FALSE, 26843545, 161061274)
\* the literal 0.3 = 21617278211378380 * 2^-56
ThreeTenths == Dbl(FALSE, 80530636, 214748364)
\* the literal 1 = 2^56 * 2^-56
One == Dbl(FALSE, Limb, 0)

FNeg(x) == IF x.hi = 0 /\ x.lo = 0 THEN x ELSE Dbl(~x.neg, x.hi, x.lo)

MagLess(x, y) == x.hi < y.hi \/ (x.hi = y.hi /\ x.lo < y.lo)

\* exact sum and difference (x >= y) of two magnitudes
MagAdd(x, y) ==
    LET lo == x.lo + y.lo
    IN  IF lo >= Limb THEN [hi |-> x.hi + y.hi + 1, lo |-> lo - Limb]
        ELSE [hi |-> x.hi + y.hi, lo |-> lo]

MagSub(x, y) ==
    IF x.lo >= y.lo THEN [hi |-> x.hi - y.hi, lo |-> x.lo - y.lo]
    ELSE [hi |-> x.hi - y.hi - 1, lo |-> x.lo + Limb - y.lo]

\* the number of low bits a magnitude has beyond 53 significant bits: a
\* magnitude of 53 bits or fewer has hi < 2^25
ExcessBits(m) ==
    IF m.hi < 2^25 THEN 0
    ELSE IF m.hi < 2^26 THEN 1
    ELSE IF m.hi < 2^27 THEN 2
    ELSE IF m.hi < 2^28 THEN 3
    ELSE 4

\* round a magnitude to 53 significant bits, to nearest, ties to even
RoundMag(m) ==
    LET k == ExcessBits(m)
        unit == 2^k
        rest == m.lo % unit
        odd == (m.lo \div unit) % 2 = 1
        down == [hi |-> m.hi, lo |-> m.lo - rest]
        up == MagAdd(down, [hi |-> 0, lo |-> unit])
    IN  IF k = 0 \/ rest = 0 THEN m
        ELSE IF 2 * rest > unit \/ (2 * rest = unit /\ odd) THEN up
        ELSE down

\* x + y in double arithmetic
FAdd(x, y) ==
    IF x.neg = y.neg
    THEN LET m == RoundMag(MagAdd(x, y)) IN Dbl(x.neg, m.hi, m.lo)
    ELSE IF MagLess(x, y)
         THEN LET m == RoundMag(MagSub(y, x)) IN Dbl(y.neg, m.hi, m.lo)
         ELSE LET m == RoundMag(MagSub(x, y))
              IN  Dbl(IF m.hi = 0 /\ m.lo = 0 THEN FALSE ELSE x.neg, m.hi, m.lo)

\* x < y
FLess(x, y) ==
    IF x.neg /\ ~y.neg THEN TRUE
    ELSE IF ~x.neg /\ y.neg THEN FALSE
    ELSE IF x.neg THEN MagLess(y, x)
    ELSE MagLess(x, y)

\* Math.min and Math.max
FMin(x, y) == IF FLess(y, x) THEN y ELSE x
FMax(x, y) == IF FLess(x, y) THEN y ELSE x

(***************************************************************************)
(* MoodJournal: the lexicon scorer                                         *)
(***************************************************************************)
positiveWords == <<
    <<"h", "a", "p", "p", "y">>,
    <<"g", "o", "o", "d">>,
    <<"g", "r", "e", "a", "t">>,
    <<"w", "o", "n", "d", "e", "r", "f", "u", "l">>,
    <<"e", "x", "c", "e", "l", "l", "e", "n", "t">>,
    <<"l", "o", "v", "e">>,
    <<"j", "o", "y">>,
    <<"p", "e", "a", "c", "e">>,
    <<"c", "a", "l", "m">>,
    <<"g", "r", "a", "t", "e", "f", "u", "l">> >>

negativeWords == <<
    <<"s", "a", "d">>,
    <<"b", "a", "d">>,
    <<"t", "e", "r", "r", "i", "b", "l", "e">>,
    <<"a", "w", "f", "u", "l">>,
    <<"h", "a", "t", "e">>,
    <<"a", "n", "g", "r", "y">>,
    <<"s", "t", "r", "e", "s", "s">>,
    <<"a", "n", "x", "i", "o", "u", "s">>,
    <<"w", "o", "r", "r", "i", "e", "d">>,
    <<"p", "a", "i", "n">> >>

UpperCase == <<"A", "B", "C", "D", "E", "F", "G", "H", "I", "J", "K", "L", "M", "N", "O", "P", "Q", "R", "S", "T", "U", "V", "W", "X", "Y", "Z">>
LowerCase == <<"a", "b", "c", "d", "e", "f", "g", "h", "i", "j", "k", "l", "m", "n", "o", "p", "q", "r", "s", "t", "u", "v", "w", "x", "y", "z">>

\* String.prototype.toLowerCase on the letters A-Z
ToLowerChar(c) ==
    IF \E i \in 1..Len(UpperCase) : UpperCase[i] = c
    THEN LowerCase[CHOOSE i \in 1..Len(UpperCase) : UpperCase[i] = c]
    ELSE c

toLowerCase(text) == [i \in 1..Len(text) |-> ToLowerChar(text[i])]

includes_startsWith(text, word) ==
    /\ Len(word) <= Len(text)
    /\ SubSeq(text, 1, Len(word)) = word

\* String.prototype.includes: word occurs in text at some position
includes(text, word) ==
    \E i \in 1..(Len(text) - Len(word) + 1) : SubSeq(text, i, i + Len(word) - 1) = word

\* words.forEach(word => { if (lowerText.includes(word)) score += delta }),
\* from the i-th word on
RECURSIVE forEachWord(_, _, _, _, _)
forEachWord(words, i, lowerText, score, delta) ==
    IF i > Len(words) THEN score
    ELSE forEachWord(words, i + 1, lowerText,
                     IF includes(lowerText, words[i]) THEN FAdd(score, delta) ELSE score,
                     delta)

analyzeSentiment_negativeAdds(text) ==
    LET lowerText == toLowerCase(text)
        afterPositive == forEachWord(positiveWords, 1, lowerText, Zero, Tenth)
        score == forEachWord(negativeWords, 1, lowerText, afterPositive, Tenth)
    IN  FMax(FNeg(One), FMin(One, score))

analyzeSentiment(text) ==
    LET lowerText == toLowerCase(text)
        afterPositive == forEachWord(positiveWords, 1, lowerText, Zero, Tenth)
        score == forEachWord(negativeWords, 1, lowerText, afterPositive, FNeg(Tenth))
    IN  FMax(FNeg(One), FMin(One, score))

\* the state of each view after construction, with empty tables
StressIdle ==
    /\ heartRate = 72
    /\ stress_readings = <<>>
    /\ readings = <<>>
    /\ alerted = FALSE

MoodIdle ==
    /\ entryText = <<>>
    /\ selectedMood = ""
    /\ sentiment = NotScored
    /\ insights = NoInsights
    /\ shareToCommunity = FALSE
    /\ saving = FALSE
    /\ entries = <<>>
    /\ entriesCall = FALSE
    /\ insertCall = <<>>

NotCalculated == 0 - 1

\* the result of a read: its rows, or no data when the read failed
ReadOk(rows) == [ok |-> TRUE, rows |-> rows]
ReadFailed == [ok |-> FALSE, rows |-> <<>>]
NoReads ==
    [profile |-> ReadFailed, moodEntries |-> ReadFailed, mindgymProgress |-> ReadFailed,
     stressReadings |-> ReadFailed, sleepSessions |-> ReadFailed]

\* useState<DashboardData>({ wellnessScore: 50, moodCount: 0, ... })
InitialData ==
    [wellnessScore |-> 50, moodCount |-> 0, exercisesCompleted |-> 0,
     avgStress |-> 0, avgSleep |-> 0, streakDays |-> 0]

\* no update of the profile has been asked for
NoUpdate == [issued |-> FALSE, ok |-> FALSE, value |-> NotCalculated]

\* the Dashboard before its first load
DashFresh ==
    /\ data = InitialData
    /\ reads = NoReads
    /\ calculated = NotCalculated
    /\ update = NoUpdate
    /\ scoreLabel = NoValue
    /\ inflight = {}
    /\ loadPc = "idle"

DashIdle ==
    /\ profile = <<>>
    /\ mood_entries = <<>>
    /\ mindgym_progress = <<>>
    /\ sleep_sessions = <<>>
    /\ DashFresh

\* SleepPal: useState('') twice, useState(7), useState<SleepSession[]>([])
DefaultQuality == 7
SleepIdle ==
    /\ sleepStart = <<>>
    /\ sleepEnd = <<>>
    /\ quality = DefaultQuality
    /\ sessions = <<>>

\* MindGym: useState<UserProgress>({ streak_count: 0, fitness_level: 1, total_completed: 0 })
InitialProgress == [streak_count |-> 0, fitness_level |-> 1, total_completed |-> 0]
\* no loadProgress call is on its way
NoCall == [st |-> "idle", ok |-> FALSE, rows |-> <<>>]
GymIdle ==
    /\ progress = InitialProgress
    /\ progressCall = NoCall
    /\ completions = <<>>

\* MindGym with the timer: useState<Exercise | null>(null), useState('all');
\* no timer is mounted
TimerIdle ==
    /\ activeExercise = <<>>
    /\ selectedType = "all"
    /\ seconds = 0
    /\ isActive = FALSE
    /\ interval = FALSE
    /\ effectDue = FALSE

\* CalmCircle: the groups of the backend, and null for selectedGroup
GroupIds == {"g1", "g2"}
Null == "null"
CircleFresh ==
    /\ groups = <<>>
    /\ memberships = {}
    /\ selectedGroup = Null
    /\ posts = <<>>
    /\ postCalls = <<>>
    /\ loading = FALSE
CircleIdle ==
    /\ calm_circle_memberships = {}
    /\ member_count = [g \in GroupIds |-> 0]
    /\ calm_circle_posts = <<>>
    /\ CircleFresh

(***************************************************************************)
(* MoodJournal: the insight generator                                      *)
(***************************************************************************)
\* const insights: Record<string, string[]>
insightPools ==
    [anxious |-> << "Try the 4-7-8 breathing technique to calm your nervous system.",
                    "Consider a 5-minute meditation to ground yourself.",
                    "Take a short walk outside to reset your mind." >>,
     sad |-> << "Reach out to a friend or loved one for connection.",
                "Practice self-compassion - it's okay to feel this way.",
                "Try gentle movement like yoga or stretching." >>,
     frustrated |-> << "Take a brief break to reset before continuing.",
                       "Journal about what's causing frustration to gain clarity.",
                       "Try progressive muscle relaxation to release tension." >>,
     tired |-> << "Consider your sleep schedule - are you getting 7-9 hours?",
                  "A 10-minute power nap might help recharge.",
                  "Review your evening routine for better rest tonight." >>,
     happy |-> << "Great! Capture this moment in your gratitude journal.",
                  "Share your positivity with the CalmCircle community.",
                  "Notice what contributed to this feeling." >>,
     calm |-> << "Wonderful! You're in a great state for meditation or reflection.",
                 "This is an ideal time for creative work or planning.",
                 "Consider what helped you reach this peaceful state." >>]

fallbackInsight == "Keep tracking your mood to identify patterns."
selfCareSuffix == " Your entry suggests you might benefit from extra self-care today."
positiveSuffix == " Your positive energy is wonderful to see!"
Undefined == "undefined"

\* insights is an object literal, so insights[mood] also finds the properties
\* it inherits from Object.prototype; these are functions (truthy, no indexed
\* elements), given here by their length: Object.length = 1 for
\* "constructor", Object.prototype.toString.length = 0 for "toString".
inheritedLength == [constructor |-> 1, toString |-> 0]

\* insights[mood] || ['Keep tracking your mood to identify patterns.'], as
\* the length and the indexed elements of the value
moodInsightsOf(mood) ==
    IF mood \in DOMAIN insightPools
    THEN [length |-> Len(insightPools[mood]), items |-> insightPools[mood]]
    ELSE IF mood \in DOMAIN inheritedLength
    THEN [length |-> inheritedLength[mood], items |-> <<>>]
    ELSE [length |-> 1, items |-> <<fallbackInsight>>]

\* Math.random() takes the values i / RandomGrid, i in 0..RandomGrid-1
RandomGrid == 6
RandomDraws == 0..(RandomGrid - 1)

\* moodInsights[Math.floor(Math.random() * moodInsights.length)]
randomInsightOf(moodInsights, i) ==
    LET index == (i * moodInsights.length) \div RandomGrid
    IN  IF index + 1 \in DOMAIN moodInsights.items
        THEN moodInsights.items[index + 1]
        ELSE Undefined

\* the returned string is base followed by suffix
generateInsights(mood, text, s, i) ==
    LET randomInsight == randomInsightOf(moodInsightsOf(mood), i)
    IN  IF FLess(s, FNeg(ThreeTenths))
        THEN [base |-> randomInsight, suffix |-> selfCareSuffix]
        ELSE IF FLess(ThreeTenths, s)
        THEN [base |-> randomInsight, suffix |-> positiveSuffix]
        ELSE [base |-> randomInsight, suffix |-> ""]

\* ---- the scorer and the generator applied to texts and moods
Phrases == <<
    <<"I", " ", "a", "m", " ", "h", "a", "p", "p", "y", " ", "a", "n", "d", " ", "l", "o", "v", "e", " ", "t", "h", "i", "s">>,
    <<"I", " ", "a", "m", " ", "s", "a", "d", " ", "a", "n", "d", " ", "a", "n", "g", "r", "y">>,
    <<"h", "a", "p", "p", "i", "n", "e", "s", "s">>,
    <<"u", "n", "h", "a", "p", "p", "y">>,
    <<" ", "H", "a", "p", "p", "y", " ", "g", "o", "o", "d", " ", "G", "R", "E", "A", "T">>,
    <<" ", "s", "a", "d", " ", "b", "a", "d", " ", "h", "a", "t", "e">>,
    <<" ", "g", "o", "o", "d", " ", "g", "r", "e", "a", "t", " ", "w", "o", "n", "d", "e", "r", "f", "u", "l", " ", "e", "x", "c", "e", "l", "l", "e", "n", "t", " ", "l", "o", "v", "e", " ", "j", "o", "y", " ", "p", "e", "a", "c", "e", " ", "c", "a", "l", "m", " ", "g", "r", "a", "t", "e", "f", "u", "l">> >>
MaxPhrases == 3

\* the texts made of at most k phrases
RECURSIVE TextsOf(_)
TextsOf(k) ==
    IF k = 0 THEN {<<>>}
    ELSE LET shorter == TextsOf(k - 1)
         IN  shorter \cup {t \o Phrases[j] : t \in shorter, j \in 1..Len(Phrases)}

\* MOOD_OPTIONS' values
KnownMoods == {"happy", "sad", "anxious", "calm", "frustrated", "tired"}
OtherMoods == {"", "excited", "constructor", "toString"}

InitScorer ==
    /\ entryText \in TextsOf(MaxPhrases)
    /\ selectedMood \in KnownMoods \cup OtherMoods
    /\ sentiment = NotScored
    /\ insights = NoInsights
    /\ shareToCommunity = FALSE
    /\ saving = FALSE
    /\ entries = <<>>
    /\ entriesCall = FALSE
    /\ insertCall = <<>>
    /\ StressIdle
    /\ DashIdle
    /\ SleepIdle
    /\ GymIdle
    /\ TimerIdle
    /\ CircleIdle

\* const sentiment = analyzeSentiment(entryText)
scoreEntry ==
    /\ sentiment = NotScored
    /\ sentiment' = analyzeSentiment(entryText)
    /\ UNCHANGED <<entryText, selectedMood, insights, shareToCommunity, saving, entries, entriesCall, insertCall>>
    /\ UNCHANGED <<stressVars, dashVars, sleepVars, gymVars, timerVars, circleVars>>

\* const insights = generateInsights(selectedMood, entryText, sentiment)
insightForEntry(i) ==
    /\ sentiment # NotScored
    /\ insights = NoInsights
    /\ insights' = generateInsights(selectedMood, entryText, sentiment, i)
    /\ UNCHANGED <<entryText, selectedMood, sentiment, shareToCommunity, saving, entries, entriesCall, insertCall>>
    /\ UNCHANGED <<stressVars, dashVars, sleepVars, gymVars, timerVars, circleVars>>

NextScorer ==
    \/ scoreEntry
    \/ \E i \in RandomDraws : insightForEntry(i)

SpecScorer == InitScorer /\ [][NextScorer]_vars

(***************************************************************************)
(* Dashboard: loadDashboardData and the wellness score                     *)
(***************************************************************************)
DefaultScore == 50
StressWindow == 7
SleepWindow == 7

\* profile.data?.wellness_score || 50: a missing row, a failed read and a
\* stored 0 all give 50
wellnessScoreOf(profileRead) ==
    IF profileRead.rows = <<>> \/ profileRead.rows[1].wellness_score = 0
    THEN DefaultScore
    ELSE profileRead.rows[1].wellness_score

\* mindgymProgress.data?.[0]?.fitness_level || 0
exercisesCompletedOf(progressRead) ==
    IF progressRead.rows = <<>> THEN 0 ELSE progressRead.rows[1].fitness_level

\* mindgymProgress.data?.[0]?.streak_count || 0
streakDaysOf(progressRead) ==
    IF progressRead.rows = <<>> THEN 0 ELSE progressRead.rows[1].streak_count

avgStressOf_floor(stressRead) ==
    IF Len(stressRead.rows) > 0
    THEN SumSeq([i \in 1..Len(stressRead.rows) |-> stressRead.rows[i].stress_level])
            \div Len(stressRead.rows)
    ELSE 0

\* Math.round(sum of stress_level / length), 0 without rows
avgStressOf(stressRead) ==
    IF Len(stressRead.rows) > 0
    THEN RoundDiv(SumSeq([i \in 1..Len(stressRead.rows) |-> stressRead.rows[i].stress_level]),
                  Len(stressRead.rows))
    ELSE 0

\* Math.round(sum of duration_minutes / length / 60 * 10) / 10, 0 without
\* rows, in tenths of an hour
avgSleepOf(sleepRead) ==
    IF Len(sleepRead.rows) > 0
    THEN RoundDiv(SumSeq([i \in 1..Len(sleepRead.rows) |-> sleepRead.rows[i].duration_minutes]),
                  6 * Len(sleepRead.rows))
    ELSE 0

\* the five terms of calculatedScore; avgSleep is in tenths of an hour
moodBucket(moodCount) == IF moodCount > 0 THEN 20 ELSE 0
exerciseBucket(exercisesCompleted) == IF exercisesCompleted > 0 THEN 25 ELSE 0
stressBucket(avgStress) ==
    IF avgStress > 0 /\ avgStress <= 5 THEN 20 ELSE IF avgStress > 5 THEN 10 ELSE 0
sleepBucket(avgSleep) ==
    IF avgSleep >= 70 /\ avgSleep <= 90 THEN 25 ELSE IF avgSleep > 0 THEN 15 ELSE 0
streakBucket(streakDays) == streakDays * 2

calculatedScore_noClamp(moodCount, exercisesCompleted, avgStress, avgSleep, streakDays) ==
    moodBucket(moodCount) + exerciseBucket(exercisesCompleted) + stressBucket(avgStress)
        + sleepBucket(avgSleep) + streakBucket(streakDays)

calculatedScore_streakOnce(moodCount, exercisesCompleted, avgStress, avgSleep, streakDays) ==
    Min(100, moodBucket(moodCount) + exerciseBucket(exercisesCompleted)
                + stressBucket(avgStress) + sleepBucket(avgSleep) + streakDays)

\* Math.min(100, Math.round(...)): the terms are integers, which Math.round
\* leaves as they are
calculatedScore(moodCount, exercisesCompleted, avgStress, avgSleep, streakDays) ==
    Min(100, moodBucket(moodCount) + exerciseBucket(exercisesCompleted)
                + stressBucket(avgStress) + sleepBucket(avgSleep)
                + streakBucket(streakDays))

getScoreLabel_goodAbove50(score) ==
    IF score >= 75 THEN "Excellent"
    ELSE IF score > 50 THEN "Good"
    ELSE IF score >= 25 THEN "Fair"
    ELSE "Needs Attention"

getScoreLabel(score) ==
    IF score >= 75 THEN "Excellent"
    ELSE IF score >= 50 THEN "Good"
    ELSE IF score >= 25 THEN "Fair"
    ELSE "Needs Attention"

\* what a select returns: the rows asked for, or no data
Select(ok, rows) == IF ok THEN ReadOk(rows) ELSE ReadFailed

\* a row of sleep_sessions (user_id, sleep_end and bedtime_routine_followed,
\* which no derivation reads, are left out); sleep_start is in minutes
SleepRow(start, minutes, q) ==
    [sleep_start |-> start, duration_minutes |-> minutes, quality_score |-> q]

\* .order('sleep_start', { ascending: false }): latest bedtime first; of two
\* rows with the same bedtime the one inserted later comes first
RECURSIVE bySleepStart(_)
bySleepStart(rows) ==
    IF rows = <<>> THEN <<>>
    ELSE LET last == rows[Len(rows)]
             rest == bySleepStart(SubSeq(rows, 1, Len(rows) - 1))
             before == SelectSeq(rest, LAMBDA x : x.sleep_start > last.sleep_start)
             after == SelectSeq(rest, LAMBDA x : x.sleep_start <= last.sleep_start)
         IN  before \o <<last>> \o after

\* .order('sleep_start', { ascending: false }).limit(n)
LatestSessions(rows, n) ==
    SubSeq(bySleepStart(rows), 1, IF Len(rows) < n THEN Len(rows) ELSE n)

\* the five reads of Promise.all, and what each of them selects
ReadNames == {"profile", "moodEntries", "mindgymProgress", "stressReadings", "sleepSessions"}
RowsOf(name) ==
    CASE name = "profile" -> profile
      [] name = "moodEntries" -> mood_entries
      [] name = "mindgymProgress" -> MostRecent(mindgym_progress, 1)
      [] name = "stressReadings" -> MostRecent(stress_readings, StressWindow)
      [] name = "sleepSessions" -> LatestSessions(sleep_sessions, SleepWindow)

\* loadDashboardData once the five reads r are there: setData, the score,
\* and the update of the profile (which may fail; its error is not looked
\* at) when the score differs from the one read.
loadDashboardData_resume(r, okUpdate) ==
    LET wellnessScore == wellnessScoreOf(r.profile)
        moodCount == Len(r.moodEntries.rows)
        exercisesCompleted == exercisesCompletedOf(r.mindgymProgress)
        avgStress == avgStressOf(r.stressReadings)
        avgSleep == avgSleepOf(r.sleepSessions)
        streakDays == streakDaysOf(r.mindgymProgress)
        score == calculatedScore(moodCount, exercisesCompleted, avgStress, avgSleep, streakDays)
    IN  /\ reads' = r
        /\ calculated' = score
        /\ data' = [wellnessScore |-> score, moodCount |-> moodCount,
                    exercisesCompleted |-> exercisesCompleted, avgStress |-> avgStress,
                    avgSleep |-> avgSleep, streakDays |-> streakDays]
        /\ update' = IF score # wellnessScore
                     THEN [issued |-> TRUE, ok |-> okUpdate, value |-> score]
                     ELSE NoUpdate
        /\ profile' =
              IF score # wellnessScore /\ okUpdate /\ profile # <<>>
              THEN <<[wellness_score |-> score]>>
              ELSE profile
        /\ UNCHANGED <<mood_entries, mindgym_progress, sleep_sessions, scoreLabel>>
        /\ UNCHANGED <<stressVars, moodVars, sleepVars, gymVars, timerVars, circleVars>>

\* loadDashboardData in one step: the five reads (each may fail) and the rest
loadDashboardData(okProfile, okMood, okProgress, okStress, okSleep, okUpdate) ==
    LET r == [profile |-> Select(okProfile, RowsOf("profile")),
              moodEntries |-> Select(okMood, RowsOf("moodEntries")),
              mindgymProgress |-> Select(okProgress, RowsOf("mindgymProgress")),
              stressReadings |-> Select(okStress, RowsOf("stressReadings")),
              sleepSessions |-> Select(okSleep, RowsOf("sleepSessions"))]
    IN  /\ loadPc = "idle"
        /\ loadDashboardData_resume(r, okUpdate)
        /\ UNCHANGED <<inflight, loadPc>>

\* sentiment_score decimal(3,2): what the column keeps of a double of
\* magnitude at most 1, in hundredths (the double is read to 2^-20, which
\* decides the nearest hundredth of every value the scorer produces)
toDecimal2(x) ==
    LET h == RoundDiv((x.hi \div 256) * 100, 1048576)
    IN  IF x.neg THEN 0 - h ELSE h

\* a row of mood_entries (user_id and ai_insights, which no derivation
\* reads, are left out)
MoodRow(mood, text, s, share) ==
    [mood_type |-> mood, entry_text |-> text, sentiment_score |-> toDecimal2(s),
     shared_to_community |-> share]

\* n entries saved earlier
MoodHistory(n) == [i \in 1..n |-> MoodRow("happy", Phrases[1], analyzeSentiment(Phrases[1]), FALSE)]

\* ---- the dashboard loaded over the rows the other views have stored

MaxRows == 4
StoredScores == {0, 50, 96}
MoodCounts == {0, 5}
DashHeartRates == {55, 75, 105}
SleepDurations == {300, 480}
ProgressRows == {[streak_count |-> 3, fitness_level |-> 10],
                 [streak_count |-> 50, fitness_level |-> 50]}

\* the sequences over S of length at most n
RECURSIVE SeqsUpTo(_, _)
SeqsUpTo(S, n) ==
    IF n = 0 THEN {<<>>}
    ELSE LET shorter == SeqsUpTo(S, n - 1)
         IN  shorter \cup {Append(q, x) : q \in shorter, x \in S}

\* one old reading followed by a full window of equal readings
LongHistories ==
    {<<NewReading(a)>> \o [i \in 1..StressWindow |-> NewReading(b)] :
        a \in DashHeartRates, b \in DashHeartRates}

InitDash ==
    /\ profile \in {<<>>} \cup {<<[wellness_score |-> w]>> : w \in StoredScores}
    /\ mood_entries \in {MoodHistory(n) : n \in MoodCounts}
    /\ mindgym_progress \in SeqsUpTo(ProgressRows, MaxRows)
    /\ \E nights \in SeqsUpTo(SleepDurations, MaxRows) :
          sleep_sessions = [i \in 1..Len(nights) |-> SleepRow(1440 * i, nights[i], DefaultQuality)]
    /\ stress_readings \in SeqsUpTo({NewReading(hr) : hr \in DashHeartRates}, MaxRows)
                               \cup LongHistories
    /\ Len(mindgym_progress) + Len(sleep_sessions)
          + Min(Len(stress_readings), MaxRows) <= MaxRows
    /\ heartRate = 72
    /\ readings = <<>>
    /\ alerted = FALSE
    /\ DashFresh
    /\ MoodIdle
    /\ SleepIdle
    /\ GymIdle
    /\ TimerIdle
    /\ CircleIdle

\* the storage answers every read of a load; the update may fail
NextDash ==
    \E okUpdate \in BOOLEAN : loadDashboardData(TRUE, TRUE, TRUE, TRUE, TRUE, okUpdate)

SpecDash == InitDash /\ [][NextDash]_vars

\* ---- the StressSnap view: the field is edited, readings are recorded
InitStress == StressIdle /\ MoodIdle /\ DashIdle /\ SleepIdle /\ GymIdle /\ TimerIdle /\ CircleIdle

NextStress ==
    \/ \E hr \in HrSamples : setHeartRate(hr)
    \/ \E insertOk \in BOOLEAN, selectOk \in BOOLEAN : recordReading(insertOk, selectOk)

SpecStress == InitStress /\ [][NextStress]_vars

\* ---- the classifier on every heart rate of HeartRates: one reading is
\* recorded with the field holding any integer of the range
InitClassify ==
    /\ heartRate \in HeartRates
    /\ stress_readings = <<>>
    /\ readings = <<>>
    /\ alerted = FALSE
    /\ MoodIdle
    /\ DashIdle
    /\ SleepIdle
    /\ GymIdle
    /\ TimerIdle
    /\ CircleIdle

NextClassify ==
    /\ stress_readings = <<>>
    /\ \E insertOk \in BOOLEAN, selectOk \in BOOLEAN : recordReading(insertOk, selectOk)

SpecClassify == InitClassify /\ [][NextClassify]_vars

\* C1: every recorded reading carries the tier of its heart rate's bucket:
\* 2 below 60, 3 in 60..69, 5 in 70..79, 7 in 80..89, 8 in 90..99, 9 from
\* 100 on; the breakpoints 60, 70, 80, 90, 100 are in the higher bucket, and
\* no other tier occurs, also below 40 and above 200.
C1_StressTiers ==
    \A i \in 1..Len(stress_readings) :
        LET hr == stress_readings[i].heart_rate
            tier == stress_readings[i].stress_level
        IN  /\ tier \in {2, 3, 5, 7, 8, 9}
            /\ (tier = 2) = (hr < 60)
            /\ (tier = 3) = (hr \in 60..69)
            /\ (tier = 5) = (hr \in 70..79)
            /\ (tier = 7) = (hr \in 80..89)
            /\ (tier = 8) = (hr \in 90..99)
            /\ (tier = 9) = (hr >= 100)

\* C1 witness: a reading at the breakpoint 60 was recorded (tier 3)
C1_Witness ==
    /\ Len(stress_readings) = 1
    /\ stress_readings[1].heart_rate = 60
    /\ stress_readings[1].stress_level = 3

\* C2: every inserted reading has intervention_triggered exactly when its
\* stress_level is at least 7, which is exactly when its heart rate is at
\* least 80, and its stress_level is the tier of its heart rate.
C2_InterventionFlag ==
    \A i \in 1..Len(stress_readings) :
        LET r == stress_readings[i]
        IN  /\ r.intervention_triggered = (r.stress_level >= 7)
            /\ r.intervention_triggered = (r.heart_rate >= 80)
            /\ r.stress_level = calculateStressLevel(r.heart_rate)

\* C2 witness: two readings are stored, one at 79 not flagged and one at 80 flagged
C2_Witness ==
    /\ Len(stress_readings) = 2
    /\ stress_readings[1].heart_rate = 79 /\ ~stress_readings[1].intervention_triggered
    /\ stress_readings[2].heart_rate = 80 /\ stress_readings[2].intervention_triggered

\* ---- what the claims about the scorer and the generator speak of
\* the number of words of a lexicon that occur in the lower-cased text
MatchCount(words, text) ==
    Cardinality({j \in 1..Len(words) : includes(toLowerCase(text), words[j])})

NetMatches(text) == MatchCount(positiveWords, text) - MatchCount(negativeWords, text)

\* the exact magnitude k * m, k >= 0
RECURSIVE MagTimes(_, _)
MagTimes(m, k) == IF k = 0 THEN [hi |-> 0, lo |-> 0] ELSE MagAdd(m, MagTimes(m, k - 1))

\* the double 0.1 * k (one correctly rounded product), clamped to [-1, 1]
TenthsClamped(k) ==
    LET m == RoundMag(MagTimes(Tenth, IF k < 0 THEN 0 - k ELSE k))
        product == Dbl(k < 0, m.hi, m.lo)
    IN  FMax(FNeg(One), FMin(One, product))

\* C3: every score is within [-1, 1]; the empty text scores 0, "I am happy
\* and love this" scores above 0 and "I am sad and angry" scores below 0.
C3_SentimentRange ==
    sentiment # NotScored =>
        /\ ~FLess(sentiment, FNeg(One))
        /\ ~FLess(One, sentiment)
        /\ (entryText = <<>> => sentiment = Zero)
        /\ (entryText = Phrases[1] => FLess(Zero, sentiment))
        /\ (entryText = Phrases[2] => FLess(sentiment, Zero))

\* C3 witness: "I am sad and angry" has been scored, below 0
C3_Witness ==
    /\ entryText = Phrases[2]
    /\ sentiment # NotScored
    /\ FLess(sentiment, Zero)

\* C4 (as claimed): the score is 0.1 times (distinct positive words found
\* minus distinct negative words found), clamped to [-1, 1].
C4_ScoreIsTenthOfNet ==
    sentiment # NotScored => sentiment = TenthsClamped(NetMatches(entryText))

\* C5 (as claimed): the text "happiness" matches "happy" and scores +0.1.
C5_HappinessScoresTenth ==
    (sentiment # NotScored /\ entryText = Phrases[3]) => sentiment = Tenth

\* C5 (amended): "happiness" does not contain "happy" and scores 0, while
\* "unhappy", which contains "happy" inside a longer word, scores +0.1.
C5_SubstringOnly ==
    sentiment # NotScored =>
        /\ (entryText = Phrases[3] => sentiment = Zero)
        /\ (entryText = Phrases[4] => sentiment = Tenth)

\* C5 witness: "happiness" has been scored, with 0
C5_Witness ==
    /\ entryText = Phrases[3]
    /\ sentiment = Zero

\* C6 (as claimed): the self-care suffix is appended exactly when the
\* sentiment is below -0.3, the positive-energy suffix exactly when it is
\* above 0.3, none otherwise; and a net of three matched lexicon words, in
\* either direction, is the boundary and gets no suffix.
C6_SuffixByThreshold ==
    insights # NoInsights =>
        /\ (insights.suffix = selfCareSuffix) = FLess(sentiment, FNeg(ThreeTenths))
        /\ (insights.suffix = positiveSuffix) = FLess(ThreeTenths, sentiment)
        /\ insights.suffix \in {selfCareSuffix, positiveSuffix, ""}
        /\ (NetMatches(entryText) \in {0 - 3, 3} => insights.suffix = "")

\* C7 (as claimed): for a known mood the base message is one of the three
\* of that mood's pool, whatever the random draw; for any other mood value
\* it is the generic message.
C7_BaseFromOwnPool ==
    insights # NoInsights =>
        IF selectedMood \in KnownMoods
        THEN \E k \in 1..3 : insights.base = insightPools[selectedMood][k]
        ELSE insights.base = fallbackInsight

\* ---- what the claims about the dashboard's score speak of
\* the stress tiers the last load read, and their number and sum
TiersRead == [i \in 1..Len(reads.stressReadings.rows) |-> reads.stressReadings.rows[i].stress_level]

\* C8: the score a load calculates is never outside [0, 100], and with 50
\* streak days it is exactly 100.
C8_ScoreRange ==
    calculated # NotCalculated =>
        /\ calculated >= 0
        /\ calculated <= 100
        /\ (data.streakDays = 50 => calculated = 100)

\* C8 witness: a load with 50 streak days calculated 100
C8_Witness ==
    /\ calculated = 100
    /\ data.streakDays = 50

\* C9: the score is min(100, mood + exercise + stress + sleep + 2 x streak
\* days) with mood 20 for a positive entry count, exercise 25 for a positive
\* fitness level, sleep 25 for 7 to 9 hours, 15 for other positive hours;
\* for 5 entries, level 10, stress 4, 8 hours, 3 streak days it is 96,
\* labelled "Excellent".
C9_ScoreFormula ==
    calculated # NotCalculated =>
        /\ calculated =
              LET total == (IF data.moodCount > 0 THEN 20 ELSE 0)
                         + (IF data.exercisesCompleted > 0 THEN 25 ELSE 0)
                         + (IF data.avgStress > 5 THEN 10
                            ELSE IF data.avgStress > 0 THEN 20 ELSE 0)
                         + (IF data.avgSleep \in 70..90 THEN 25
                            ELSE IF data.avgSleep > 0 THEN 15 ELSE 0)
                         + 2 * data.streakDays
              IN  IF total > 100 THEN 100 ELSE total
        /\ ( ( /\ data.moodCount = 5 /\ data.exercisesCompleted = 10
               /\ data.avgStress = 4 /\ data.avgSleep = 80 /\ data.streakDays = 3 )
             => /\ calculated = 96
                /\ getScoreLabel(data.wellnessScore) = "Excellent" )

\* C9 witness: the load of the example (5 entries, level 10, stress 4, 8
\* hours, 3 streak days) calculated 96
C9_Witness ==
    /\ calculated = 96
    /\ data.moodCount = 5 /\ data.exercisesCompleted = 10
    /\ data.avgStress = 4 /\ data.avgSleep = 80 /\ data.streakDays = 3

\* C10 (as claimed): the stress term is 10 whenever the average of the
\* tiers read is greater than 5, 20 whenever it is greater than 0 and at
\* most 5, and 0 only when no reading was read.
C10_BucketByAverage ==
    calculated # NotCalculated =>
        LET n == Len(TiersRead)
            sum == SumSeq(TiersRead)
            term == stressBucket(data.avgStress)
        IN  /\ (n > 0 /\ sum > 5 * n) => term = 10
            /\ (n > 0 /\ sum <= 5 * n) => term = 20
            /\ term = 0 => n = 0

\* C10 (amended): the stress term is decided by the average rounded to the
\* nearest integer (a tie going up): it is 10 whenever the average of the
\* at most 7 tiers read is at least 5.5, 20 whenever it is below 5.5, and 0
\* exactly when no reading was read.
C10_BucketByRoundedAverage ==
    calculated # NotCalculated =>
        LET n == Len(TiersRead)
            sum == SumSeq(TiersRead)
            term == stressBucket(data.avgStress)
        IN  /\ n <= 7
            /\ (n > 0 /\ 2 * sum >= 11 * n) => term = 10
            /\ (n > 0 /\ 2 * sum < 11 * n) => term = 20
            /\ (term = 0) = (n = 0)

\* C10 witness: a load read the tiers 2, 5 and 9 in some order (average
\* 5.33, rounded to 5) and the stress term is 20
C10_Witness ==
    /\ calculated # NotCalculated
    /\ Len(TiersRead) = 3
    /\ SumSeq(TiersRead) = 16
    /\ data.avgStress = 5
    /\ stressBucket(data.avgStress) = 20

(***************************************************************************)
(* Dashboard: the label of the score                                       *)
(***************************************************************************)
\* the largest score: Math.min(100, ...)
ScoreMax == 100

\* the dashboard showing any score of 0..100 (the other figures are those of
\* a user without rows), its label not rendered yet
InitLabel ==
    /\ StressIdle /\ MoodIdle /\ SleepIdle /\ GymIdle /\ TimerIdle /\ CircleIdle
    /\ profile = <<>> /\ mood_entries = <<>> /\ mindgym_progress = <<>> /\ sleep_sessions = <<>>
    /\ \E w \in 0..ScoreMax : data = [InitialData EXCEPT !.wellnessScore = w]
    /\ reads = NoReads
    /\ calculated = NotCalculated
    /\ update = NoUpdate
    /\ scoreLabel = NoValue
    /\ inflight = {}
    /\ loadPc = "idle"

\* the render: {getScoreLabel(data.wellnessScore)}
renderScoreLabel ==
    /\ scoreLabel # getScoreLabel(data.wellnessScore)
    /\ scoreLabel' = getScoreLabel(data.wellnessScore)
    /\ UNCHANGED <<profile, mood_entries, mindgym_progress, sleep_sessions, data, reads,
                   calculated, update, inflight, loadPc>>
    /\ UNCHANGED <<stressVars, moodVars, sleepVars, gymVars, timerVars, circleVars>>

NextLabel == renderScoreLabel

SpecLabel == InitLabel /\ [][NextLabel]_vars

\* C11: the label rendered for a score of 0..100 is "Excellent" exactly from
\* 75 on, "Good" exactly in 50..74, "Fair" exactly in 25..49 and "Needs
\* Attention" exactly below 25, and it is one of these four.
C11_ScoreLabels ==
    scoreLabel # NoValue =>
        LET w == data.wellnessScore
        IN  /\ scoreLabel \in {"Excellent", "Good", "Fair", "Needs Attention"}
            /\ (scoreLabel = "Excellent") = (w >= 75)
            /\ (scoreLabel = "Good") = (w >= 50 /\ w < 75)
            /\ (scoreLabel = "Fair") = (w >= 25 /\ w < 50)
            /\ (scoreLabel = "Needs Attention") = (w < 25)

\* C11 witness: the score 50, the lowest "Good" one, has been labelled
C11_Witness ==
    /\ data.wellnessScore = 50
    /\ scoreLabel = "Good"

(***************************************************************************)
(* Dashboard: loads whose reads or whose update may fail                   *)
(***************************************************************************)
\* the latest row of a user who completed five exercises in a row
FiveInARow == [streak_count |-> 5, fitness_level |-> 6]

InitFaults ==
    /\ profile \in {<<>>} \cup {<<[wellness_score |-> w]>> : w \in StoredScores}
    /\ mood_entries \in {MoodHistory(n) : n \in MoodCounts}
    /\ mindgym_progress \in {<<>>, <<FiveInARow>>}
    /\ sleep_sessions \in {<<>>} \cup {<<SleepRow(0, d, DefaultQuality)>> : d \in SleepDurations}
    /\ stress_readings \in {<<>>, <<NewReading(75)>>}
    /\ heartRate = 72
    /\ readings = <<>>
    /\ alerted = FALSE
    /\ DashFresh
    /\ MoodIdle
    /\ SleepIdle
    /\ GymIdle
    /\ TimerIdle
    /\ CircleIdle

\* every read of a load and its update may fail
NextFaults ==
    \E okProfile \in BOOLEAN, okMood \in BOOLEAN, okProgress \in BOOLEAN,
       okStress \in BOOLEAN, okSleep \in BOOLEAN, okUpdate \in BOOLEAN :
        loadDashboardData(okProfile, okMood, okProgress, okStress, okSleep, okUpdate)

SpecFaults == InitFaults /\ [][NextFaults]_vars

AllReadsOk(r) == \A name \in ReadNames : r[name].ok

\* C12 (as claimed): after a load in which the five reads succeeded and the
\* update, if one was issued, succeeded, the wellness_score stored in the
\* profile is the score calculated in that load, whatever was stored before.
C12_WriteThrough ==
    (/\ calculated # NotCalculated
     /\ AllReadsOk(reads)
     /\ (update.issued => update.ok)
     /\ profile # <<>>)
        => profile[1].wellness_score = calculated

\* C13 (as claimed): a load in which one of the reads failed issues no
\* update and leaves the stored wellness_score as it was.
C13_FailedReadKeepsScore ==
    [][(~AllReadsOk(reads')) => (~update'.issued /\ profile' = profile)]_vars

(***************************************************************************)
(* Dashboard: a load followed read by read.  The five selects are issued   *)
(* together and return one at a time, in any order; the rest of            *)
(* loadDashboardData runs when await Promise.all(...) lets it.             *)
(***************************************************************************)
PromiseAll_firstSettled(pending) == pending # ReadNames

\* await Promise.all([...]) of reads that never reject: it goes on when
\* none of them is outstanding
PromiseAll(pending) == pending = {}

\* the call: the five selects are issued
loadDashboardData_start ==
    /\ loadPc = "idle"
    /\ loadPc' = "awaiting"
    /\ inflight' = ReadNames
    /\ reads' = NoReads
    /\ calculated' = NotCalculated
    /\ update' = NoUpdate
    /\ UNCHANGED <<profile, mood_entries, mindgym_progress, sleep_sessions, data, scoreLabel>>
    /\ UNCHANGED <<stressVars, moodVars, sleepVars, gymVars, timerVars, circleVars>>

\* one of the outstanding selects returns, with its rows or with an error
select_return(name, ok) ==
    /\ loadPc = "awaiting"
    /\ name \in inflight
    /\ inflight' = inflight \ {name}
    /\ reads' = [reads EXCEPT ![name] = Select(ok, RowsOf(name))]
    /\ UNCHANGED <<profile, mood_entries, mindgym_progress, sleep_sessions, data, calculated,
                   update, scoreLabel, loadPc>>
    /\ UNCHANGED <<stressVars, moodVars, sleepVars, gymVars, timerVars, circleVars>>

\* the await is over: the lines after it
loadDashboardData_join(okUpdate) ==
    /\ loadPc = "awaiting"
    /\ PromiseAll(inflight)
    /\ loadDashboardData_resume(reads, okUpdate)
    /\ loadPc' = "idle"
    /\ UNCHANGED inflight

InitLoad ==
    /\ profile \in {<<[wellness_score |-> w]>> : w \in {0, DefaultScore}}
    /\ mood_entries \in {MoodHistory(n) : n \in MoodCounts}
    /\ mindgym_progress \in {<<>>, <<FiveInARow>>}
    /\ sleep_sessions \in {<<>>, <<SleepRow(0, 480, DefaultQuality)>>}
    /\ StressIdle
    /\ DashFresh
    /\ MoodIdle
    /\ SleepIdle
    /\ GymIdle
    /\ TimerIdle
    /\ CircleIdle

NextLoad ==
    \/ loadDashboardData_start
    \/ \E name \in ReadNames, ok \in BOOLEAN : select_return(name, ok)
    \/ \E okUpdate \in BOOLEAN : loadDashboardData_join(okUpdate)

SpecLoad == InitLoad /\ [][NextLoad]_vars

\* C14: while one of the five reads of a load is outstanding, the load has
\* calculated no score, issued no update and changed no stored score: the
\* score and the update come after the last read has returned, whichever
\* read that is.
C14_ScoreAfterAllReads ==
    inflight # {} =>
        /\ calculated = NotCalculated
        /\ ~update.issued
        /\ loadPc = "awaiting"

\* C14 witness: a load whose five reads returned has calculated 80 (mood
\* entries, five exercises in a row, eight hours of sleep) and stored it
C14_Witness ==
    /\ loadPc = "idle"
    /\ inflight = {}
    /\ AllReadsOk(reads)
    /\ calculated = 80
    /\ update.issued
    /\ profile = <<[wellness_score |-> 80]>>

(***************************************************************************)
(* SleepPal: the session form, saveSleepSession and the two averages.      *)
(* Times are in minutes; the averages have one decimal and are kept in     *)
(* tenths (of an hour, of a quality point).                                *)
(***************************************************************************)
\* new Date(field).getTime(): milliseconds; a datetime-local field holds a
\* date and a minute
getTime(field) == field[1] * 60000

\* Math.floor((end.getTime() - start.getTime()) / 60000)
durationMinutes(start, end) == (getTime(end) - getTime(start)) \div 60000

Durations(list) == [i \in 1..Len(list) |-> list[i].duration_minutes]
Qualities(list) == [i \in 1..Len(list) |-> list[i].quality_score]

avgSleep_truncated(list) ==
    IF Len(list) > 0 THEN SumSeq(Durations(list)) \div (6 * Len(list)) ELSE 0

\* Math.round(sum of duration_minutes / length / 60 * 10) / 10, 0 for an
\* empty list, in tenths of an hour
avgSleep(list) ==
    IF Len(list) > 0 THEN RoundDiv(SumSeq(Durations(list)), 6 * Len(list)) ELSE 0

avgQuality_defaultWhenEmpty(list) ==
    IF Len(list) > 0 THEN RoundDiv(10 * SumSeq(Qualities(list)), Len(list))
    ELSE 10 * DefaultQuality

\* Math.round(sum of quality_score / length * 10) / 10, 0 for an empty list,
\* in tenths
avgQuality(list) ==
    IF Len(list) > 0 THEN RoundDiv(10 * SumSeq(Qualities(list)), Len(list)) ELSE 0

setSleepStart(t) ==
    /\ sleepStart # <<t>>
    /\ sleepStart' = <<t>>
    /\ UNCHANGED <<sleepEnd, quality, sessions>>
    /\ UNCHANGED <<stressVars, moodVars, dashVars, gymVars, timerVars, circleVars>>

setSleepEnd(t) ==
    /\ sleepEnd # <<t>>
    /\ sleepEnd' = <<t>>
    /\ UNCHANGED <<sleepStart, quality, sessions>>
    /\ UNCHANGED <<stressVars, moodVars, dashVars, gymVars, timerVars, circleVars>>

setQuality(q) ==
    /\ quality # q
    /\ quality' = q
    /\ UNCHANGED <<sleepStart, sleepEnd, sessions>>
    /\ UNCHANGED <<stressVars, moodVars, dashVars, gymVars, timerVars, circleVars>>

\* loadSessions: the seven sessions of latest bedtime; a failed select
\* leaves the list as it is
loadSessions(ok) ==
    /\ sessions' = IF ok THEN LatestSessions(sleep_sessions, SleepWindow) ELSE sessions
    /\ UNCHANGED <<sleepStart, sleepEnd, quality>>
    /\ UNCHANGED <<stressVars, moodVars, dashVars, gymVars, timerVars, circleVars>>

MaxSessions == 2

\* saveSleepSession: nothing without both fields; else the insert (its
\* error is not looked at), the form reset and loadSessions
saveSleepSession(insertOk, selectOk) ==
    /\ Len(sleep_sessions) < MaxSessions
    /\ sleepStart # <<>>
    /\ sleepEnd # <<>>
    /\ sleep_sessions' =
          IF insertOk
          THEN Append(sleep_sessions,
                      SleepRow(sleepStart[1], durationMinutes(sleepStart, sleepEnd), quality))
          ELSE sleep_sessions
    /\ sleepStart' = <<>>
    /\ sleepEnd' = <<>>
    /\ quality' = DefaultQuality
    /\ sessions' = IF selectOk THEN LatestSessions(sleep_sessions', SleepWindow) ELSE sessions
    /\ UNCHANGED <<profile, mood_entries, mindgym_progress, data, reads, calculated, update,
                   scoreLabel, inflight, loadPc>>
    /\ UNCHANGED <<stressVars, moodVars, gymVars, timerVars, circleVars>>

\* ---- the form filled in and saved
Bedtimes == {0, 480}
WakeTimes == {420, 480}
SliderValues == {DefaultQuality, 8}

InitSleep == StressIdle /\ MoodIdle /\ DashIdle /\ SleepIdle /\ GymIdle /\ TimerIdle /\ CircleIdle

NextSleep ==
    \/ \E t \in Bedtimes : setSleepStart(t)
    \/ \E t \in WakeTimes : setSleepEnd(t)
    \/ \E q \in SliderValues : setQuality(q)
    \/ \E insertOk \in BOOLEAN, selectOk \in BOOLEAN : saveSleepSession(insertOk, selectOk)

SpecSleep == InitSleep /\ [][NextSleep]_vars

\* C15 (as claimed): no stored session has a negative duration_minutes (a
\* session whose wake time is before its bedtime is not inserted).
C15_NoNegativeDuration ==
    \A i \in 1..Len(sleep_sessions) : sleep_sessions[i].duration_minutes >= 0

\* ---- the two averages over stored nights: the view and the dashboard
\* load the sessions a user has stored
MaxNights == 3
NightDurations == {0 - 60, 420, 423, 450, 480}

InitNights ==
    /\ \E nights \in SeqsUpTo(NightDurations \X SliderValues, MaxNights) :
          sleep_sessions = [i \in 1..Len(nights) |-> SleepRow(1440 * i, nights[i][1], nights[i][2])]
    /\ profile = <<[wellness_score |-> DefaultScore]>>
    /\ mood_entries = <<>>
    /\ mindgym_progress = <<>>
    /\ DashFresh
    /\ StressIdle
    /\ MoodIdle
    /\ SleepIdle
    /\ GymIdle
    /\ TimerIdle
    /\ CircleIdle

NextNights ==
    \/ \E ok \in BOOLEAN : loadSessions(ok)
    \/ \E okUpdate \in BOOLEAN : loadDashboardData(TRUE, TRUE, TRUE, TRUE, TRUE, okUpdate)

SpecNights == InitNights /\ [][NextNights]_vars

\* C16: an empty list of sessions gives an average of 0 hours and an
\* average quality of 0 in the SleepPal view, and a dashboard load that
\* read no sessions shows an average of 0 hours.
C16_EmptyListGivesZero ==
    /\ sessions = <<>> => (avgSleep(sessions) = 0 /\ avgQuality(sessions) = 0)
    /\ (calculated # NotCalculated /\ reads.sleepSessions.rows = <<>>) => data.avgSleep = 0

\* C16 witness: the table is empty, the view holds no session and the
\* dashboard has been loaded
C16_Witness ==
    /\ sleep_sessions = <<>>
    /\ sessions = <<>>
    /\ calculated # NotCalculated
    /\ reads.sleepSessions = ReadOk(<<>>)
    /\ data.avgSleep = 0

Abs(x) == IF x < 0 THEN 0 - x ELSE x

\* t tenths is a nearest number with one decimal to the quotient a / b, b > 0
NearestTenth(t, a, b) == 2 * Abs(t * b - 10 * a) <= b

\* for a non-empty list the averages are the means rounded to one decimal,
\* in the view and in the dashboard
MeansToOneDecimal ==
    /\ sessions # <<>> =>
          /\ NearestTenth(avgSleep(sessions), SumSeq(Durations(sessions)), 60 * Len(sessions))
          /\ NearestTenth(avgQuality(sessions), SumSeq(Qualities(sessions)), Len(sessions))
    /\ (calculated # NotCalculated /\ reads.sleepSessions.rows # <<>>) =>
          NearestTenth(data.avgSleep, SumSeq(Durations(reads.sleepSessions.rows)),
                       60 * Len(reads.sleepSessions.rows))

\* the sessions in the view are three nights of 420, 480 and 450 minutes
ThreeNights ==
    /\ Len(sessions) = 3
    /\ {sessions[i].sleep_start : i \in 1..3} = {1440, 2880, 4320}
    /\ \A i \in 1..3 :
          sessions[i].duration_minutes =
              CASE sessions[i].sleep_start = 1440 -> 420
                [] sessions[i].sleep_start = 2880 -> 480
                [] sessions[i].sleep_start = 4320 -> 450

\* C17 (as claimed): for a non-empty list avgHours is the mean duration in
\* hours rounded to one decimal and avgQuality the mean quality rounded to
\* one decimal; three nights of 420, 480 and 450 minutes give 7.2 hours.
C17_MeansAndExample72 ==
    /\ MeansToOneDecimal
    /\ ThreeNights => avgSleep(sessions) = 72

\* C17 (amended): the same rule; three nights of 420, 480 and 450 minutes
\* give 7.5 hours (1350 / 3 / 60), in the view and in the dashboard.
C17_MeansAndExample75 ==
    /\ MeansToOneDecimal
    /\ ThreeNights => avgSleep(sessions) = 75
    /\ (ThreeNights /\ calculated # NotCalculated) => data.avgSleep = 75

\* C17 witness: the view and the dashboard have loaded the three nights
C17_Witness ==
    /\ ThreeNights
    /\ calculated # NotCalculated
    /\ data.avgSleep = 75
    /\ avgQuality(sessions) = 77

(***************************************************************************)
(* MindGym: loadProgress and completeExercise.  A row of mindgym_progress  *)
(* is [streak_count, fitness_level]; exercise_id and score, which no       *)
(* derivation reads, are left out.                                         *)
(***************************************************************************)
\* the ceiling of the fitness level: Math.min(100, ...)
FitnessMax == 100

newFitnessLevel_noCeiling(fitness_level) == fitness_level + 1

\* const newFitnessLevel = Math.min(100, progress.fitness_level + 1)
newFitnessLevel(fitness_level) == Min(FitnessMax, fitness_level + 1)

newStreak_byTwo(streak_count) == streak_count + 2

\* const newStreak = progress.streak_count + 1
newStreak(streak_count) == streak_count + 1

\* what completeExercise derives from the progress p it sees: the row it
\* inserts and the progress it sets
InsertedRow(p) ==
    [streak_count |-> newStreak(p.streak_count),
     fitness_level |-> newFitnessLevel(p.fitness_level)]
CompletedProgress(p) ==
    [streak_count |-> newStreak(p.streak_count),
     fitness_level |-> newFitnessLevel(p.fitness_level),
     total_completed |-> p.total_completed + 1]

\* what loadProgress sets from the rows it got, latest first: nothing
\* changes on an error or without rows
LoadedProgress(p, ok, rows) ==
    IF ok /\ Len(rows) > 0
    THEN [streak_count |-> rows[1].streak_count,
          fitness_level |-> rows[1].fitness_level,
          total_completed |-> Len(rows)]
    ELSE p

\* the rows of a user who completed n exercises one after the other
History(n) == [k \in 1..n |-> [streak_count |-> k, fitness_level |-> Min(FitnessMax, k + 1)]]

\* a run is followed for MaxCompleted completions counted from the empty
\* view or from a loaded history
MaxCompleted == 3
StoredCompletions == {0, 97, 120}
Stops == {n + MaxCompleted : n \in StoredCompletions}

\* loadProgress in one step
loadProgress(ok) ==
    /\ progress' = LoadedProgress(progress, ok, Reverse(mindgym_progress))
    /\ UNCHANGED <<progressCall, completions>>
    /\ UNCHANGED <<stressVars, moodVars, dashVars, sleepVars, timerVars, circleVars>>

\* completeExercise in one step: the insert (its error is not looked at)
\* and setProgress
completeExercise(insertOk) ==
    /\ progress.total_completed \notin Stops
    /\ mindgym_progress' =
          IF insertOk THEN Append(mindgym_progress, InsertedRow(progress))
          ELSE mindgym_progress
    /\ progress' = CompletedProgress(progress)
    /\ UNCHANGED <<progressCall, completions>>
    /\ UNCHANGED <<profile, mood_entries, sleep_sessions, data, reads, calculated, update,
                   scoreLabel, inflight, loadPc>>
    /\ UNCHANGED <<stressVars, moodVars, sleepVars, timerVars, circleVars>>

InitGym ==
    /\ mindgym_progress \in {History(n) : n \in StoredCompletions}
    /\ profile = <<>>
    /\ mood_entries = <<>>
    /\ sleep_sessions = <<>>
    /\ DashFresh
    /\ StressIdle
    /\ MoodIdle
    /\ SleepIdle
    /\ GymIdle
    /\ TimerIdle
    /\ CircleIdle

NextGym ==
    \/ \E ok \in BOOLEAN : loadProgress(ok)
    \/ \E insertOk \in BOOLEAN : completeExercise(insertOk)

SpecGym == InitGym /\ [][NextGym]_vars

\* a step of completeExercise
Completion == \E insertOk \in BOOLEAN : completeExercise(insertOk)

\* C18: completeExercise sets the streak to the current streak plus 1 and the
\* fitness level to the current level plus 1, at most 100, and the row it
\* inserts carries exactly these two values; from (3, 99) it derives
\* (4, 100) and from (0, 0) it derives (1, 1).
C18_CompletionValues ==
    [][/\ Completion =>
            LET streak == progress.streak_count + 1
                level == IF progress.fitness_level + 1 > 100 THEN 100
                         ELSE progress.fitness_level + 1
            IN  /\ progress'.streak_count = streak
                /\ progress'.fitness_level = level
                /\ mindgym_progress' # mindgym_progress =>
                      mindgym_progress' =
                          Append(mindgym_progress,
                                 [streak_count |-> streak, fitness_level |-> level])
       /\ <<newStreak(3), newFitnessLevel(99)>> = <<4, 100>>
       /\ <<newStreak(0), newFitnessLevel(0)>> = <<1, 1>>]_vars

\* C18 witness: a completion at streak 98 and level 99 has inserted (99, 100)
C18_Witness ==
    /\ Len(mindgym_progress) = 99
    /\ mindgym_progress[98] = [streak_count |-> 98, fitness_level |-> 99]
    /\ mindgym_progress[99] = [streak_count |-> 99, fitness_level |-> 100]
    /\ progress.streak_count = 99
    /\ progress.fitness_level = 100

\* C19: after every step of loadProgress and completeExercise the fitness
\* level in the view and the fitness_level of every stored row are at most
\* 100, and a completion at level 100 leaves the level at 100.
C19_FitnessCeiling ==
    [][/\ progress'.fitness_level <= 100
       /\ \A i \in 1..Len(mindgym_progress') : mindgym_progress'[i].fitness_level <= 100
       /\ (Completion /\ progress.fitness_level = 100) => progress'.fitness_level = 100]_vars

\* C19 witness: the level was 100, a further completion was stored and the
\* level is still 100
C19_Witness ==
    /\ Len(mindgym_progress) = 100
    /\ mindgym_progress[99].fitness_level = 100
    /\ mindgym_progress[100] = [streak_count |-> 100, fitness_level |-> 100]
    /\ progress.fitness_level = 100
    /\ progress.streak_count = 100

(***************************************************************************)
(* MindGym followed call by call: loadProgress is sent on mount, answered  *)
(* by the storage and returns later; a click on Start Exercise derives the *)
(* new values from the progress of the current render and sends the        *)
(* insert, the storage stores it, and the call returns and sets the        *)
(* progress it derived at the click.                                       *)
(***************************************************************************)
MaxInFlight == 2
RaceRows == 4

loadProgress_send ==
    /\ progressCall.st = "idle"
    /\ progressCall' = [st |-> "sent", ok |-> FALSE, rows |-> <<>>]
    /\ UNCHANGED <<progress, completions>>
    /\ UNCHANGED <<stressVars, moodVars, dashVars, sleepVars, timerVars, circleVars>>

\* the storage answers the select, with the rows it holds then or an error
loadProgress_select(ok) ==
    /\ progressCall.st = "sent"
    /\ progressCall' = [st |-> "answered", ok |-> ok,
                        rows |-> IF ok THEN Reverse(mindgym_progress) ELSE <<>>]
    /\ UNCHANGED <<progress, completions>>
    /\ UNCHANGED <<stressVars, moodVars, dashVars, sleepVars, timerVars, circleVars>>

loadProgress_return ==
    /\ progressCall.st = "answered"
    /\ progress' = LoadedProgress(progress, progressCall.ok, progressCall.rows)
    /\ progressCall' = [st |-> "done", ok |-> FALSE, rows |-> <<>>]
    /\ UNCHANGED completions
    /\ UNCHANGED <<stressVars, moodVars, dashVars, sleepVars, timerVars, circleVars>>

\* onClick of Start Exercise: completeExercise up to the await of the insert
completeExercise_click ==
    /\ Len(completions) < MaxInFlight
    /\ Len(mindgym_progress) + Len(completions) < RaceRows
    /\ completions' = Append(completions, [row |-> InsertedRow(progress),
                                           next |-> CompletedProgress(progress),
                                           st |-> "sent"])
    /\ UNCHANGED <<progress, progressCall>>
    /\ UNCHANGED <<stressVars, moodVars, dashVars, sleepVars, timerVars, circleVars>>

\* the storage stores the row of the i-th call on its way
completeExercise_insert(i) ==
    /\ i \in 1..Len(completions)
    /\ completions[i].st = "sent"
    /\ mindgym_progress' = Append(mindgym_progress, completions[i].row)
    /\ completions' = [completions EXCEPT ![i].st = "stored"]
    /\ UNCHANGED <<progress, progressCall>>
    /\ UNCHANGED <<profile, mood_entries, sleep_sessions, data, reads, calculated, update,
                   scoreLabel, inflight, loadPc>>
    /\ UNCHANGED <<stressVars, moodVars, sleepVars, timerVars, circleVars>>

\* the await of the i-th call is over: setProgress
completeExercise_return(i) ==
    /\ i \in 1..Len(completions)
    /\ completions[i].st = "stored"
    /\ progress' = completions[i].next
    /\ completions' = [j \in 1..(Len(completions) - 1) |->
                          IF j < i THEN completions[j] ELSE completions[j + 1]]
    /\ UNCHANGED progressCall
    /\ UNCHANGED <<stressVars, moodVars, dashVars, sleepVars, timerVars, circleVars>>

InitRace ==
    /\ mindgym_progress \in {History(0), History(2)}
    /\ profile = <<>>
    /\ mood_entries = <<>>
    /\ sleep_sessions = <<>>
    /\ DashFresh
    /\ StressIdle
    /\ MoodIdle
    /\ SleepIdle
    /\ GymIdle
    /\ TimerIdle
    /\ CircleIdle

NextRace ==
    \/ loadProgress_send
    \/ \E ok \in BOOLEAN : loadProgress_select(ok)
    \/ loadProgress_return
    \/ completeExercise_click
    \/ \E i \in 1..MaxInFlight : completeExercise_insert(i)
    \/ \E i \in 1..MaxInFlight : completeExercise_return(i)

SpecRace == InitRace /\ [][NextRace]_vars

\* C20 (as claimed): in insertion order every row of mindgym_progress has a
\* streak_count above that of the row before it and a fitness_level not
\* below it.
C20_MonotoneRecords ==
    \A i \in 2..Len(mindgym_progress) :
        /\ mindgym_progress[i].streak_count > mindgym_progress[i - 1].streak_count
        /\ mindgym_progress[i].fitness_level >= mindgym_progress[i - 1].fitness_level

\* ---------------------------------------------------------------------
\* MindGym with the breathing timer (src/unnamed/part_000)
\* ---------------------------------------------------------------------

\* duration_seconds of the exercises offered, scaled down to a few ticks
MaxDuration == 2
TimerDurations == 1..MaxDuration
\* rows of mindgym_progress up to which exercises are started
TimerRows == 3
exerciseTypes == {"all", "breathing", "meditation"}

timerShown == activeExercise # <<>>
duration == activeExercise[1].duration_seconds

\* MindGym renders again: BreathingTimer is declared inside MindGym, so the
\* element gets a new component type, the old timer is unmounted (its
\* interval cleared) and a new one is mounted with useState(duration),
\* useState(false), its effect due
Remount(d) ==
    /\ seconds' = d
    /\ isActive' = FALSE
    /\ interval' = FALSE
    /\ effectDue' = TRUE

\* no timer in the view
Unmount ==
    /\ seconds' = 0
    /\ isActive' = FALSE
    /\ interval' = FALSE
    /\ effectDue' = FALSE

\* onClick of Start Exercise: setActiveExercise(exercise)
startExercise(d) ==
    /\ ~timerShown
    /\ Len(mindgym_progress) < TimerRows
    /\ Len(completions) + 2 <= MaxInFlight    \* room for the calls of a run
    /\ activeExercise' = <<[duration_seconds |-> d]>>
    /\ Remount(d)
    /\ UNCHANGED selectedType
    /\ UNCHANGED <<stressVars, moodVars, dashVars, sleepVars, gymVars, circleVars>>

\* the effect of BreathingTimer, run after a render in which isActive or
\* seconds changed: the cleanup of the run before clears the interval, then
\* either an interval is set, or at zero setIsActive(false) and
\* onComplete(), which is completeExercise up to the await of its insert
runEffect ==
    /\ timerShown
    /\ effectDue
    /\ IF isActive /\ seconds > 0
       THEN /\ interval' = TRUE
            /\ effectDue' = FALSE
            /\ UNCHANGED <<isActive, completions>>
       ELSE IF seconds = 0
       THEN /\ interval' = FALSE
            /\ isActive' = FALSE
            /\ effectDue' = isActive
            /\ completions' = Append(completions, [row |-> InsertedRow(progress),
                                                   next |-> CompletedProgress(progress),
                                                   st |-> "sent"])
       ELSE /\ interval' = FALSE
            /\ effectDue' = FALSE
            /\ UNCHANGED <<isActive, completions>>
    /\ UNCHANGED <<activeExercise, selectedType, seconds, progress, progressCall>>
    /\ UNCHANGED <<stressVars, moodVars, dashVars, sleepVars, circleVars>>

tick_byTwo ==
    /\ timerShown
    /\ interval
    /\ ~effectDue
    /\ seconds' = seconds - 2
    /\ effectDue' = TRUE
    /\ UNCHANGED <<activeExercise, selectedType, isActive, interval>>
    /\ UNCHANGED <<stressVars, moodVars, dashVars, sleepVars, gymVars, circleVars>>

\* the interval fires: setSeconds((s) => s - 1)
tick ==
    /\ timerShown
    /\ interval
    /\ ~effectDue
    /\ seconds' = seconds - 1
    /\ effectDue' = TRUE
    /\ UNCHANGED <<activeExercise, selectedType, isActive, interval>>
    /\ UNCHANGED <<stressVars, moodVars, dashVars, sleepVars, gymVars, circleVars>>

\* Start / Pause button
toggle ==
    /\ timerShown
    /\ ~effectDue
    /\ Len(completions) + 2 <= MaxInFlight
    /\ isActive' = ~isActive
    /\ effectDue' = TRUE
    /\ UNCHANGED <<activeExercise, selectedType, seconds, interval>>
    /\ UNCHANGED <<stressVars, moodVars, dashVars, sleepVars, gymVars, circleVars>>

\* Reset button
reset ==
    /\ timerShown
    /\ ~effectDue
    /\ seconds' = duration
    /\ isActive' = FALSE
    /\ effectDue' = (isActive \/ seconds # duration)
    /\ UNCHANGED <<activeExercise, selectedType, interval>>
    /\ UNCHANGED <<stressVars, moodVars, dashVars, sleepVars, gymVars, circleVars>>

\* a filter button, shown above the timer as well: a different value
\* renders MindGym again
setSelectedType(t) ==
    /\ ~effectDue
    /\ selectedType' = t
    /\ IF timerShown /\ t # selectedType
       THEN Remount(duration)
       ELSE UNCHANGED <<seconds, isActive, interval, effectDue>>
    /\ UNCHANGED activeExercise
    /\ UNCHANGED <<stressVars, moodVars, dashVars, sleepVars, gymVars, circleVars>>

\* loadProgress is over: setProgress when rows came, which renders MindGym
\* again
loadProgress_render ==
    /\ progressCall.st = "answered"
    /\ progress' = LoadedProgress(progress, progressCall.ok, progressCall.rows)
    /\ progressCall' = [st |-> "done", ok |-> FALSE, rows |-> <<>>]
    /\ IF timerShown /\ progressCall.ok /\ Len(progressCall.rows) > 0
       THEN Remount(duration)
       ELSE UNCHANGED <<seconds, isActive, interval, effectDue>>
    /\ UNCHANGED <<completions, activeExercise, selectedType>>
    /\ UNCHANGED <<stressVars, moodVars, dashVars, sleepVars, circleVars>>

\* the await of the i-th completeExercise is over: setProgress and
\* setActiveExercise(null), which takes the timer out of the view
completeExercise_close(i) ==
    /\ i \in 1..Len(completions)
    /\ completions[i].st = "stored"
    /\ progress' = completions[i].next
    /\ completions' = [j \in 1..(Len(completions) - 1) |->
                          IF j < i THEN completions[j] ELSE completions[j + 1]]
    /\ activeExercise' = <<>>
    /\ Unmount
    /\ UNCHANGED <<progressCall, selectedType>>
    /\ UNCHANGED <<stressVars, moodVars, dashVars, sleepVars, circleVars>>

InitTimer ==
    /\ mindgym_progress \in {History(0), History(2)}
    /\ profile = <<>>
    /\ mood_entries = <<>>
    /\ sleep_sessions = <<>>
    /\ DashFresh
    /\ StressIdle
    /\ MoodIdle
    /\ SleepIdle
    /\ GymIdle
    /\ TimerIdle
    /\ CircleIdle

NextTimer ==
    \/ \E d \in TimerDurations : startExercise(d)
    \/ runEffect
    \/ tick
    \/ toggle
    \/ reset
    \/ \E t \in exerciseTypes : setSelectedType(t)
    \/ loadProgress_send
    \/ \E ok \in BOOLEAN : loadProgress_select(ok)
    \/ loadProgress_render
    \/ \E i \in 1..MaxInFlight : completeExercise_insert(i)
    \/ \E i \in 1..MaxInFlight : completeExercise_close(i)

SpecTimer == InitTimer /\ [][NextTimer]_vars

\* C21 (as claimed): a run of the timer to zero triggers completeExercise
\* once: a completion is only ever started by the effect run that finds the
\* running timer at zero, never by the run that follows its deactivation.
C21_OneCompletionPerRun ==
    [][Len(completions') > Len(completions) => isActive]_vars

\* ---------------------------------------------------------------------
\* MoodJournal: the form and handleSave
\* ---------------------------------------------------------------------

\* String.prototype.trim on a text: white space is removed at both ends
WhiteSpace == {" ", "\t", "\n"}
RECURSIVE trimStart(_)
trimStart(t) ==
    IF t # <<>> /\ Head(t) \in WhiteSpace THEN trimStart(Tail(t)) ELSE t
trim(t) == Reverse(trimStart(Reverse(trimStart(t))))

\* .limit(10) of loadEntries
EntriesLimit == 10
\* entries saved in a run
MaxEntries == 2
\* what is typed and which moods are clicked in a run
JournalTexts == {<<>>, <<" ", "\n">>, Phrases[1], Phrases[2]}
JournalMoods == {"happy"}

\* onClick of a mood option
setSelectedMood(mood) ==
    /\ Len(mood_entries) < MaxEntries
    /\ selectedMood' = mood
    /\ UNCHANGED <<entryText, sentiment, insights, shareToCommunity, saving, entries, entriesCall, insertCall>>
    /\ UNCHANGED <<stressVars, dashVars, sleepVars, gymVars, timerVars, circleVars>>

\* onChange of the textarea
setEntryText(t) ==
    /\ Len(mood_entries) < MaxEntries
    /\ entryText' = t
    /\ UNCHANGED <<selectedMood, sentiment, insights, shareToCommunity, saving, entries, entriesCall, insertCall>>
    /\ UNCHANGED <<stressVars, dashVars, sleepVars, gymVars, timerVars, circleVars>>

\* onChange of the checkbox
setShareToCommunity(b) ==
    /\ shareToCommunity' = b
    /\ UNCHANGED <<entryText, selectedMood, sentiment, insights, saving, entries, entriesCall, insertCall>>
    /\ UNCHANGED <<stressVars, dashVars, sleepVars, gymVars, timerVars, circleVars>>

\* onClick of Save Entry (disabled without a mood and while saving):
\* handleSave up to the await of the insert; it returns at once without a
\* mood or with a text that is empty after trim(). i is the draw of
\* Math.random in generateInsights
handleSave_start(i) ==
    /\ selectedMood # ""
    /\ ~saving
    /\ trim(entryText) # <<>>
    /\ saving' = TRUE
    /\ sentiment' = analyzeSentiment(entryText)
    /\ insights' = generateInsights(selectedMood, entryText, sentiment', i)
    /\ insertCall' = <<MoodRow(selectedMood, entryText, sentiment', shareToCommunity)>>
    /\ UNCHANGED <<entryText, selectedMood, shareToCommunity, entries, entriesCall>>
    /\ UNCHANGED <<stressVars, dashVars, sleepVars, gymVars, timerVars, circleVars>>

handleSave_finish_clearsAlways(insertOk) ==
    /\ saving
    /\ mood_entries' = IF insertOk THEN Append(mood_entries, insertCall[1]) ELSE mood_entries
    /\ selectedMood' = ""
    /\ entryText' = <<>>
    /\ shareToCommunity' = FALSE
    /\ entriesCall' = TRUE
    /\ saving' = FALSE
    /\ insertCall' = <<>>
    /\ sentiment' = NotScored
    /\ insights' = NoInsights
    /\ UNCHANGED entries
    /\ UNCHANGED <<profile, mindgym_progress, sleep_sessions, data, reads, calculated, update,
                   scoreLabel, inflight, loadPc>>
    /\ UNCHANGED <<stressVars, sleepVars, gymVars, timerVars, circleVars>>

\* the insert, whose row was made of the values of the render in which Save
\* Entry was clicked, is over, with the row stored or with an error: on success
\* the form is cleared and loadEntries() is called; setSaving(false)
handleSave_finish(insertOk) ==
    /\ saving
    /\ IF insertOk
       THEN /\ mood_entries' = Append(mood_entries, insertCall[1])
            /\ selectedMood' = ""
            /\ entryText' = <<>>
            /\ shareToCommunity' = FALSE
            /\ entriesCall' = TRUE
       ELSE UNCHANGED <<mood_entries, selectedMood, entryText, shareToCommunity, entriesCall>>
    /\ saving' = FALSE
    /\ insertCall' = <<>>
    /\ sentiment' = NotScored
    /\ insights' = NoInsights
    /\ UNCHANGED entries
    /\ UNCHANGED <<profile, mindgym_progress, sleep_sessions, data, reads, calculated, update,
                   scoreLabel, inflight, loadPc>>
    /\ UNCHANGED <<stressVars, sleepVars, gymVars, timerVars, circleVars>>

\* the select of loadEntries is over: the ten latest rows, or an error
loadEntries_return(ok) ==
    /\ entriesCall
    /\ entriesCall' = FALSE
    /\ entries' = IF ok THEN MostRecent(mood_entries, EntriesLimit) ELSE entries
    /\ UNCHANGED <<entryText, selectedMood, sentiment, insights, shareToCommunity, saving, insertCall>>
    /\ UNCHANGED <<stressVars, dashVars, sleepVars, gymVars, timerVars, circleVars>>

\* the journal after its first render: loadEntries() is on its way
InitJournal ==
    /\ profile = <<>>
    /\ mood_entries = <<>>
    /\ mindgym_progress = <<>>
    /\ sleep_sessions = <<>>
    /\ DashFresh
    /\ StressIdle
    /\ entryText = <<>>
    /\ selectedMood = ""
    /\ sentiment = NotScored
    /\ insights = NoInsights
    /\ shareToCommunity = FALSE
    /\ saving = FALSE
    /\ entries = <<>>
    /\ entriesCall = TRUE
    /\ insertCall = <<>>
    /\ SleepIdle
    /\ GymIdle
    /\ TimerIdle
    /\ CircleIdle

NextJournal ==
    \/ \E mood \in JournalMoods : setSelectedMood(mood)
    \/ \E t \in JournalTexts : setEntryText(t)
    \/ \E b \in BOOLEAN : setShareToCommunity(b)
    \/ \E i \in RandomDraws : handleSave_start(i)
    \/ \E insertOk \in BOOLEAN : handleSave_finish(insertOk)
    \/ \E ok \in BOOLEAN : loadEntries_return(ok)

SpecJournal == InitJournal /\ [][NextJournal]_vars

\* C22 (as claimed): the free text is optional: with a mood selected and a
\* text that is empty or white space only, Save Entry starts a save (which
\* inserts the entry).
C22_EmptyTextSaves ==
    (selectedMood # "" /\ ~saving /\ trim(entryText) = <<>>)
        => ENABLED (\E i \in RandomDraws : handleSave_start(i))

\* ---------------------------------------------------------------------
\* the three derived signals side by side: readings are recorded, entries
\* saved and the dashboard loaded over what has been stored
\* ---------------------------------------------------------------------

SignalHeartRates == {72, 100}
SignalTexts == {Phrases[1], Phrases[2]}

InitSignals ==
    /\ profile = <<[wellness_score |-> DefaultScore]>>
    /\ mood_entries = <<>>
    /\ mindgym_progress = <<>>
    /\ sleep_sessions = <<>>
    /\ DashFresh
    /\ StressIdle
    /\ MoodIdle
    /\ SleepIdle
    /\ GymIdle
    /\ TimerIdle
    /\ CircleIdle

NextSignals ==
    \/ \E hr \in SignalHeartRates : setHeartRate(hr)
    \/ recordReading(TRUE, TRUE)
    \/ \E mood \in JournalMoods : setSelectedMood(mood)
    \/ \E t \in SignalTexts : setEntryText(t)
    \/ handleSave_start(0)
    \/ handleSave_finish(TRUE)
    \/ \E okUpdate \in BOOLEAN : loadDashboardData(TRUE, TRUE, TRUE, TRUE, TRUE, okUpdate)

SpecSignals == InitSignals /\ [][NextSignals]_vars

\* the five aggregates the score is calculated from
Aggregates(d) == <<d.moodCount, d.exercisesCompleted, d.avgStress, d.avgSleep, d.streakDays>>

C24_NoWriteWhenEqual ==
    [][(/\ profile # <<>>
        /\ calculated' # NotCalculated
        /\ calculated' = profile[1].wellness_score)
          => ~update'.issued]_vars

\* C25 (as claimed): once loadProgress and every insert have returned, the
\* total_completed on display is the number of rows of mindgym_progress,
\* also when Start Exercise was clicked twice before the first insert
\* returned.
C25_TotalMatchesRows ==
    (progressCall.st = "done" /\ completions = <<>>)
        => progress.total_completed = Len(mindgym_progress)

\* ---------------------------------------------------------------------
\* CalmCircle: groups, memberships and the posts of the selected group
\* ---------------------------------------------------------------------

\* the user of the view
Me == "me"
\* .limit(20) of loadPosts
PostsLimit == 20
\* loadPosts calls on their way at a time, and the member_count up to
\* which joins are attempted
MaxPostCalls == 2
MaxMembers == 3

isMember(groupId) == groupId \in memberships
\* the rows of a group with ai_moderation_status 'approved' (the only
\* status a row of the run has), latest first
PostsOf(groupId) ==
    MostRecent(SelectSeq(calm_circle_posts, LAMBDA p : p.group_id = groupId), PostsLimit)
MembershipsOf(u) == {r[2] : r \in {x \in calm_circle_memberships : x[1] = u}}

\* the first render: loadGroups() and loadMemberships(), each of which
\* keeps the old state on an error
mount(okGroups, okMemberships) ==
    /\ groups = <<>>
    /\ memberships = {}
    /\ groups' = IF okGroups THEN member_count ELSE groups
    /\ memberships' = IF okMemberships THEN MembershipsOf(Me) ELSE memberships
    /\ UNCHANGED <<calm_circle_memberships, member_count, calm_circle_posts, selectedGroup,
                   posts, postCalls, loading>>
    /\ UNCHANGED <<stressVars, moodVars, dashVars, sleepVars, gymVars, timerVars>>

\* the View / Close button of a joined group: setSelectedGroup, and the
\* effect on selectedGroup, which calls loadPosts() for a group
setSelectedGroup(groupId) ==
    /\ groupId \in DOMAIN groups
    /\ isMember(groupId)
    /\ Len(postCalls) < MaxPostCalls
    /\ selectedGroup' = IF groupId = selectedGroup THEN Null ELSE groupId
    /\ postCalls' = IF selectedGroup' = Null THEN postCalls
                    ELSE Append(postCalls, [group_id |-> selectedGroup', st |-> "sent",
                                            ok |-> FALSE, rows |-> <<>>])
    /\ UNCHANGED <<calm_circle_memberships, member_count, calm_circle_posts, groups, memberships,
                   posts, loading>>
    /\ UNCHANGED <<stressVars, moodVars, dashVars, sleepVars, gymVars, timerVars>>

\* the storage answers the select of the i-th loadPosts call on its way
loadPosts_select(i, ok) ==
    /\ i \in 1..Len(postCalls)
    /\ postCalls[i].st = "sent"
    /\ postCalls' = [postCalls EXCEPT ![i] =
                        [group_id |-> @.group_id, st |-> "answered", ok |-> ok,
                         rows |-> IF ok THEN PostsOf(@.group_id) ELSE <<>>]]
    /\ UNCHANGED <<calm_circle_memberships, member_count, calm_circle_posts, groups, memberships,
                   selectedGroup, posts, loading>>
    /\ UNCHANGED <<stressVars, moodVars, dashVars, sleepVars, gymVars, timerVars>>

\* the await of the i-th loadPosts call is over: setPosts(data) unless
\* there was an error
loadPosts_return(i) ==
    /\ i \in 1..Len(postCalls)
    /\ postCalls[i].st = "answered"
    /\ posts' = IF postCalls[i].ok THEN postCalls[i].rows ELSE posts
    /\ postCalls' = [j \in 1..(Len(postCalls) - 1) |->
                        IF j < i THEN postCalls[j] ELSE postCalls[j + 1]]
    /\ UNCHANGED <<calm_circle_memberships, member_count, calm_circle_posts, groups, memberships,
                   selectedGroup, loading>>
    /\ UNCHANGED <<stressVars, moodVars, dashVars, sleepVars, gymVars, timerVars>>

\* the Join button of a group not joined in the view: the insert of the
\* membership, which UNIQUE(user_id, group_id) rejects for a row that is
\* there and whose result is not looked at; the increment rpc on
\* member_count of the group, which may fail as well; loadMemberships() and
\* loadGroups(); setLoading(false)
joinGroup(groupId, okIncrement, okMemberships, okGroups) ==
    /\ groupId \in DOMAIN groups
    /\ ~isMember(groupId)
    /\ ~loading
    /\ member_count[groupId] < MaxMembers
    /\ calm_circle_memberships' = calm_circle_memberships \cup {<<Me, groupId>>}
    /\ member_count' = IF okIncrement
                       THEN [member_count EXCEPT ![groupId] = @ + 1]
                       ELSE member_count
    /\ memberships' = IF okMemberships
                      THEN {r[2] : r \in {x \in calm_circle_memberships' : x[1] = Me}}
                      ELSE memberships
    /\ groups' = IF okGroups THEN member_count' ELSE groups
    /\ loading' = FALSE
    /\ UNCHANGED <<calm_circle_posts, selectedGroup, posts, postCalls>>
    /\ UNCHANGED <<stressVars, moodVars, dashVars, sleepVars, gymVars, timerVars>>

\* two groups with a post each; the other user is a member of g1
InitCircle ==
    /\ calm_circle_memberships = {<<"other", "g1">>}
    /\ member_count = [g \in GroupIds |-> IF g = "g1" THEN 1 ELSE 0]
    /\ calm_circle_posts = <<[group_id |-> "g1", content |-> "p1"],
                             [group_id |-> "g2", content |-> "p2"]>>
    /\ CircleFresh
    /\ StressIdle
    /\ MoodIdle
    /\ DashIdle
    /\ SleepIdle
    /\ GymIdle
    /\ TimerIdle

NextCircle ==
    \/ \E okGroups \in BOOLEAN, okMemberships \in BOOLEAN : mount(okGroups, okMemberships)
    \/ \E groupId \in GroupIds : setSelectedGroup(groupId)
    \/ \E i \in 1..MaxPostCalls, ok \in BOOLEAN : loadPosts_select(i, ok)
    \/ \E i \in 1..MaxPostCalls : loadPosts_return(i)
    \/ \E groupId \in GroupIds, okIncrement \in BOOLEAN, okMemberships \in BOOLEAN,
          okGroups \in BOOLEAN : joinGroup(groupId, okIncrement, okMemberships, okGroups)

SpecCircle == InitCircle /\ [][NextCircle]_vars

\* C26 (as claimed): with a group selected and no loadPosts call on its
\* way, every post held by the view is a post of the selected group.
C26_PostsOfSelectedGroup ==
    (selectedGroup # Null /\ postCalls = <<>>)
        => \A k \in 1..Len(posts) : posts[k].group_id = selectedGroup

\* C30 (as claimed): after any sequence of join attempts the member_count
\* of a group is the number of its membership rows.
C30_CountMatchesRows ==
    \A g \in GroupIds :
        member_count[g] = Cardinality({r \in calm_circle_memberships : r[2] = g})

\* C27: when the insert of handleSave has returned, saving is false; if
\* the row was stored, mood, text and checkbox are cleared and loadEntries
\* is called; if not, mood, text and checkbox are what they were and no
\* load is started.
C27_FormAfterSave ==
    [][(insertCall # <<>> /\ insertCall' = <<>>) =>
          /\ ~saving'
          /\ IF mood_entries' = Append(mood_entries, insertCall[1])
             THEN /\ selectedMood' = ""
                  /\ entryText' = <<>>
                  /\ shareToCommunity' = FALSE
                  /\ entriesCall'
             ELSE /\ mood_entries' = mood_entries
                  /\ UNCHANGED <<selectedMood, entryText, shareToCommunity, entries, entriesCall>>]_vars

\* C27 witness: an entry typed with the checkbox set has been stored, the
\* form is cleared, saving is over and the list is being loaded again
C27_Witness ==
    /\ Len(mood_entries) = 1
    /\ mood_entries[1].shared_to_community
    /\ selectedMood = ""
    /\ entryText = <<>>
    /\ ~shareToCommunity
    /\ ~saving
    /\ entriesCall
    /\ entries = <<>>

NextRun ==
    \/ \E d \in TimerDurations : startExercise(d)
    \/ (~isActive /\ toggle)
    \/ runEffect
    \/ tick
    \/ \E t \in exerciseTypes : setSelectedType(t)
    \/ loadProgress_send
    \/ \E ok \in BOOLEAN : loadProgress_select(ok)
    \/ loadProgress_render
    \/ \E i \in 1..MaxInFlight : completeExercise_insert(i)
    \/ \E i \in 1..MaxInFlight : completeExercise_close(i)

FairRun ==
    /\ WF_vars(runEffect)
    /\ WF_vars(tick)
    /\ WF_vars(loadProgress_send)
    /\ WF_vars(\E ok \in BOOLEAN : loadProgress_select(ok))
    /\ WF_vars(loadProgress_render)
    /\ WF_vars(\E i \in 1..MaxInFlight : completeExercise_insert(i))
    /\ WF_vars(\E i \in 1..MaxInFlight : completeExercise_close(i))

SpecRun == InitTimer /\ [][NextRun]_vars /\ FairRun

\* C29 (as claimed): completeExercise is never triggered before the
\* seconds are zero, and a timer that has been started and is neither
\* paused nor reset leads to the exercise view closed, with a completion
\* stored.
C29_RunsToCompletion ==
    /\ [][Len(completions') > Len(completions) => seconds = 0]_vars
    /\ (timerShown /\ isActive) ~> (~timerShown /\ Len(mindgym_progress) > 0)

====
